---- MODULE Spec2Model ----
\* The operation-registry Agent of
\* packages/apollo-server-plugin-operation-registry/src/agent.ts:
\* the scheduler (start / stop / timer ticks / checkForUpdate), the fetcher
\* (tryUpdate) and the reconciler (updateManifest), as one state machine.
\* Every asynchronous function is cut at its await points; the code between
\* two awaits runs as one action.
\* The Agent of packages/apollo-server-plugin-engine-operation-registry, which
\* keeps a boolean in requestInFlight, is modelled beside it in flagAgent.
EXTENDS Integers, Sequences, FiniteSets, TLC

\* ------------------------------------------------------------------ bounds
MaxOps == 2        \* longest `operations` array of a manifest
MaxCalls == 2      \* checkForUpdate() invocations outstanding at one time
MaxChecks == 2     \* cap on _timesChecked
MaxClock == 3      \* clock steps of DEFAULT_POLL_SECONDS the model lets pass

\* --------------------------------------------------------- program constants
DEFAULT_POLL_SECONDS == 30
SYNC_WARN_TIME_SECONDS == 60

\* ------------------------------------------------------------- value domains
Null == "null"
Undefined == "undefined"

Sigs == {"a", "b"}
Docs == {"docA", "docB"}

Range(s) == {s[i] : i \in 1..Len(s)}

\* `apq:${signature}`
getCacheKey(signature) == "apq:" \o signature

CacheKeys == {getCacheKey(s) : s \in Sigs}

\* One element of manifest.operations: an Operation, or null (a JSON body may
\* carry any value in the array).
Op(s, d) == [isNull |-> FALSE, signature |-> s, document |-> d]
NullOp == [isNull |-> TRUE, signature |-> "", document |-> ""]
Operations == {Op(s, d) : s \in Sigs, d \in Docs}
Entries == Operations \cup {NullOp}

SeqsUpTo(S, n) == UNION {[1..k -> S] : k \in 0..n}

\* A parsed JSON body handed to updateManifest: null, or an object whose
\* `operations` is an array or something else.
Manifest(v, ops) == [isNull |-> FALSE, version |-> v, isArray |-> TRUE, operations |-> ops]
NullManifest == [isNull |-> TRUE, version |-> 0, isArray |-> FALSE, operations |-> <<>>]
NonArrayManifest == [isNull |-> FALSE, version |-> 1, isArray |-> FALSE, operations |-> <<>>]
NoManifest == [isNull |-> TRUE, version |-> -1, isArray |-> FALSE, operations |-> <<>>]

\* Manifests in which every array element is an Operation and the shape is right.
ValidManifests == {Manifest(1, ops) : ops \in SeqsUpTo(Operations, MaxOps)}
\* Right shape, but some array element is null.
BrokenEntryManifests ==
  {Manifest(1, ops) : ops \in SeqsUpTo(Entries, MaxOps)} \ ValidManifests
\* Wrong shape: missing, version # 1, operations not an array.
InvalidShapeManifests ==
  {NullManifest, NonArrayManifest, Manifest(2, <<>>), Manifest(2, <<Op("a", "docA")>>)}
Manifests == ValidManifests \cup BrokenEntryManifests \cup InvalidShapeManifests

signatures(m) == {m.operations[i].signature : i \in 1..Len(m.operations)}

\* Errors the code throws.
ErrInvalidManifest == "Invalid manifest format."
ErrTypeError == "TypeError: Cannot destructure"
NoError == "none"

\* Calls on options.cache.
CacheSet(k, v) == [op |-> "set", key |-> k, value |-> v]
CacheDelete(k) == [op |-> "delete", key |-> k, value |-> ""]
Absent == "absent"

\* The KeyValueCache, with calls taking effect in the order issued.
RECURSIVE ApplyCalls(_, _)
ApplyCalls(c, calls) ==
  IF calls = <<>> THEN c
  ELSE LET h == Head(calls) IN
       ApplyCalls([c EXCEPT ![h.key] = IF h.op = "set" THEN h.value ELSE Absent],
                  Tail(calls))

\* ---------------------------------------------------------------- reconciler
\* Mutant: replacementSignatures.add() is left out.
SetAddNothing(store, x) == store

\* A JS Set keeps insertion order: SignatureStore is a duplicate-free sequence.
SetAdd(store, x) == IF x \in Range(store) THEN store ELSE Append(store, x)

\* Mutant: the store reports no signature as known.
hasNothing(store, x) == FALSE

\* this.lastOperationSignatures.has(signature)
has(store, x) == x \in Range(store)

\* The first loop of updateManifest (for ... of manifest.operations), from
\* element i on: acc = [sets, replacement, threw].
RECURSIVE AddLoop(_, _, _, _)
AddLoop(ops, i, last, acc) ==
  IF i > Len(ops) THEN acc
  ELSE IF ops[i].isNull THEN [acc EXCEPT !.threw = TRUE]
  ELSE AddLoop(ops, i + 1, last,
         [sets |-> IF ~has(last, ops[i].signature)
                     THEN Append(acc.sets,
                                 CacheSet(getCacheKey(ops[i].signature), ops[i].document))
                     ELSE acc.sets,
          replacement |-> SetAdd(acc.replacement, ops[i].signature),
          threw |-> FALSE])

\* Mutant: the purge of removed operations is left out.
PurgeLoopNothing(last, i, incoming) == <<>>

\* The second loop (for ... of this.lastOperationSignatures), from element i on.
RECURSIVE PurgeLoop(_, _, _)
PurgeLoop(last, i, incoming) ==
  IF i > Len(last) THEN <<>>
  ELSE (IF last[i] \notin incoming
          THEN <<CacheDelete(getCacheKey(last[i]))>> ELSE <<>>)
       \o PurgeLoop(last, i + 1, incoming)

\* Mutant: the version of the manifest is not looked at.
validShapeAnyVersion(manifest) == ~(manifest.isNull \/ ~manifest.isArray)

\* The manifest passes the shape test at the head of updateManifest.
validShape(manifest) ==
  ~(manifest.isNull \/ manifest.version # 1 \/ ~manifest.isArray)

\* Mutant: the signature store is replaced only in a round that added an
\* operation.
updateManifestReplacesOnAdd(last, manifest) ==
  IF ~validShape(manifest)
  THEN [calls |-> <<>>, signatures |-> last, error |-> ErrInvalidManifest]
  ELSE LET added == AddLoop(manifest.operations, 1, last,
                            [sets |-> <<>>, replacement |-> <<>>, threw |-> FALSE])
       IN IF added.threw
          THEN [calls |-> added.sets, signatures |-> last, error |-> ErrTypeError]
          ELSE [calls |-> added.sets \o PurgeLoop(last, 1, Range(added.replacement)),
                signatures |-> IF added.sets = <<>> THEN last ELSE added.replacement,
                error |-> NoError]

\* updateManifest(manifest) run against lastOperationSignatures = last:
\* the cache calls it issues, the signature store it leaves, the error it throws.
updateManifest(last, manifest) ==
  IF ~validShape(manifest)
  THEN [calls |-> <<>>, signatures |-> last, error |-> ErrInvalidManifest]
  ELSE LET added == AddLoop(manifest.operations, 1, last,
                            [sets |-> <<>>, replacement |-> <<>>, threw |-> FALSE])
       IN IF added.threw
          THEN [calls |-> added.sets, signatures |-> last, error |-> ErrTypeError]
          ELSE [calls |-> added.sets \o PurgeLoop(last, 1, Range(added.replacement)),
                signatures |-> added.replacement,
                error |-> NoError]

\* ------------------------------------------------------------------ fetcher
\* A header value is the sequence of its characters; <<>> is a missing header
\* (headers.get() gives null, falsy like the empty string).
NoHeader == <<>>
QUOTE == "\""
EtagV1 == <<QUOTE, "v", "1", QUOTE>>          \* "v1"
EtagV2 == <<QUOTE, "v", "2", QUOTE>>          \* "v2"
EtagWeak == <<"W", "/", QUOTE, "v", "1", QUOTE>>   \* W/"v1"
EtagHeaders == {NoHeader, EtagV1, EtagV2, EtagWeak}

RECURSIVE Join(_)
Join(chars) == IF chars = <<>> THEN "" ELSE Head(chars) \o Join(Tail(chars))

\* JSON.parse on a header value: a double-quoted string without escapes gives
\* its content; a text that does not start a JSON value is a SyntaxError.
JSONParse(chars) ==
  IF Len(chars) >= 2 /\ chars[1] = QUOTE /\ chars[Len(chars)] = QUOTE
     /\ \A i \in 2..(Len(chars) - 1) : chars[i] \notin {QUOTE, "\\"}
  THEN [ok |-> TRUE, value |-> Join(SubSeq(chars, 2, Len(chars) - 1))]
  ELSE [ok |-> FALSE, value |-> ""]

ContentTypes == {Null, "application/json", "text/html"}
Response(st, ct, et) == [status |-> st, contentType |-> ct, etag |-> et]
NoResponse == Response(0, Null, NoHeader)
\* What the manifest endpoint may answer once the headers are in.
Responses ==
  {Response(200, ct, et) : ct \in ContentTypes, et \in EtagHeaders}
  \cup {Response(304, Null, et) : et \in EtagHeaders}
  \cup {Response(500, "text/html", NoHeader)}

\* The request tryUpdate() hands to fetch(): whether one was made in the step
\* and the If-None-Match header on it (Null: no such header).
Request(h) == [made |-> TRUE, ifNoneMatch |-> h]
NoRequest == [made |-> FALSE, ifNoneMatch |-> Null]
\* if (this.lastSuccessfulETag) fetchOptions.headers = { 'If-None-Match': ... }
fetchOptions(etag) == IF etag \notin {Undefined, ""} THEN Request(etag) ELSE Request(Null)

\* Response.ok
ok(r) == r.status >= 200 /\ r.status < 300

ErrFetch == "Unable to fetch operation manifest"
ErrStatus == "Could not fetch manifest"
ErrContentType == "Unexpected 'Content-Type' header"
ErrJson == "invalid json response body"
ErrSyntax == "SyntaxError: Unexpected token"

\* -------------------------------------------------------------- construction
\* A JS value found in the options object: what kind of value it is and, for
\* a string, its text.
Value(k, v) == [kind |-> k, value |-> v]
UndefinedValue == Value("undefined", "")
Str(v) == Value("string", v)
\* typeof v
typeof(v) == IF v.kind = "null" THEN "object" ELSE v.kind
\* !!v
truthy(v) ==
  CASE v.kind \in {"undefined", "null"} -> FALSE
    [] v.kind = "string" -> v.value # ""
    [] OTHER -> TRUE

\* options.engine: undefined, null, a string, or an object with some serviceID.
Engine(k, id) == [kind |-> k, serviceID |-> id]
ServiceIDs == {UndefinedValue, Str(""), Str("my-service"), Value("number", "42")}
Engines ==
  {Engine(k, UndefinedValue) : k \in {"undefined", "null", "string"}}
  \cup {Engine("object", id) : id \in ServiceIDs}
SchemaHashes == {UndefinedValue, Str(""), Str("abc123")}

AgentOptions(h, e) == [schemaHash |-> h, engine |-> e]
AllOptions == {AgentOptions(h, e) : h \in SchemaHashes, e \in Engines}
\* The options of the agent the other specifications start from.
UsualOptions == AgentOptions(Str("abc123"), Engine("object", Str("my-service")))

ErrSchemaHash == "schemaHash must be passed to the Agent."
ErrServiceID == "engine.serviceID must be passed to the Agent."
ErrNullRead == "TypeError: Cannot read property 'serviceID' of null"

\* new Agent(opts): the error the constructor throws, or NoError.
constructor(opts) ==
  IF ~truthy(opts.schemaHash) THEN ErrSchemaHash
  ELSE IF typeof(opts.engine) # "object" THEN ErrServiceID
  ELSE IF opts.engine.kind = "null" THEN ErrNullRead
  ELSE IF typeof(opts.engine.serviceID) # "string" THEN ErrServiceID
  ELSE NoError

\* ------------------------------------------------------------------ promises
Pending == [state |-> "pending", value |-> ""]
Resolved(v) == [state |-> "resolved", value |-> v]
Rejected(e) == [state |-> "rejected", value |-> e]

\* requestInFlight: null, or the promise object checkForUpdate stored there.
\* Promise objects have identity: id numbers the check that created it.
NoPromise == [state |-> "null", value |-> "", id |-> 0]
\* Promise.resolve(): a promise already resolved with undefined.
PromiseResolve(n) == [state |-> "resolved", value |-> Undefined, id |-> n]

\* --------------------------------------------------------------------- state
VARIABLES
  options,                  \* the options object given to the constructor
  agent,                    \* the Agent object: "none", "constructed", "threw"
  flagAgent,                \* the Agent of the engine-operation-registry package
  checkpoint,               \* the data fields as the check under way found them
  requestInFlight,          \* this.requestInFlight
  timesChecked,             \* this._timesChecked
  lastSuccessfulCheck,      \* this.lastSuccessfulCheck (clock reading) or -1
  lastSuccessfulETag,       \* this.lastSuccessfulETag
  lastOperationSignatures,  \* this.lastOperationSignatures
  timer,                    \* this.timer: "undefined", "armed", "cleared"
  cache,                    \* options.cache, the "apq:" namespace
  now,                      \* the wall clock, in seconds
  startPc,                  \* start(): "none", "awaiting" its pulse, "returned"
  calls,                    \* the checkForUpdate() invocations not yet observed
  crashed,                  \* a rejection escaped with nobody handling it
  stopped,                  \* stop() has been called and has returned
  applied,                  \* argument of the updateManifest call of this step
  cacheLog,                 \* cache calls issued in this step
  thrown,                   \* error the constructor or a direct updateManifest call threw in this step
  request,                  \* request handed to fetch() in this step
  fetched,                  \* response whose headers arrived in this step
  observed,                 \* the call whose promise settled in this step
  warned                    \* the step printed the loss-of-sync warning

vars == <<options, agent, flagAgent, checkpoint, request, requestInFlight, timesChecked, lastSuccessfulCheck, lastSuccessfulETag,
          lastOperationSignatures, timer, cache, now, startPc, calls, crashed,
          stopped,          applied, cacheLog, thrown, fetched, observed, warned>>

Slots == 1..MaxCalls
Never == -1

\* One checkForUpdate() invocation: who called, where its promise chain stands
\* (pc), whether it began the check or found one in flight (role), the check it
\* belongs to, the result travelling down the chain, the etag header kept for
\* the capture after updateManifest.
FreeSlot == [pc |-> "free", kind |-> "none", role |-> "none", check |-> 0,
             res |-> Pending, hdr |-> NoHeader]

NoCall == [kind |-> "none", role |-> "none", check |-> 0, res |-> Pending]

Running == {"scheduled", "fetching", "text", "json", "awaitUpdate", "tryDone"}

\* What a check found in lastOperationSignatures, options.cache and
\* lastSuccessfulETag when checkForUpdate() began it; NoSnapshot while no check
\* has begun or its caller has been told the outcome.
Snapshot(sigs, c, etag) ==
  [taken |-> TRUE, lastOperationSignatures |-> sigs, cache |-> c,
   lastSuccessfulETag |-> etag]
NoSnapshot ==
  [taken |-> FALSE, lastOperationSignatures |-> <<>>,
   cache |-> [k \in CacheKeys |-> Absent], lastSuccessfulETag |-> Undefined]

\* One tryUpdate() of the boolean-flag Agent: where it stands and the etag
\* header of its response.
FlagFreeRun == [pc |-> "free", hdr |-> NoHeader]

\* The boolean-flag Agent after construction (its constructor checks nothing).
FlagInit ==
  [requestInFlight |-> FALSE,
   lastSuccessfulCheck |-> Never,
   lastSuccessfulETag |-> Undefined,
   lastOperationSignatures |-> <<>>,
   timer |-> "undefined",
   cache |-> [k \in CacheKeys |-> Absent],
   runs |-> [i \in Slots |-> FlagFreeRun],
   starting |-> FALSE,       \* a start() stands at `await this.checkForUpdate()`
   returned |-> FALSE,       \* some tryUpdate() has resolved
   unhandled |-> FALSE]      \* some rejection was left unhandled

Init ==
  /\ options = UsualOptions
  /\ agent = "constructed"
  /\ flagAgent = FlagInit
  /\ checkpoint = NoSnapshot
  /\ request = NoRequest
  /\ requestInFlight = NoPromise
  /\ timesChecked = 0
  /\ lastSuccessfulCheck = Never
  /\ lastSuccessfulETag = Undefined
  /\ lastOperationSignatures = <<>>
  /\ timer = "undefined"
  /\ cache = [k \in CacheKeys |-> Absent]
  /\ now = 0
  /\ startPc = "none"
  /\ calls = [c \in Slots |-> FreeSlot]
  /\ crashed = FALSE
  /\ stopped = FALSE
  /\ applied = NoManifest
  /\ cacheLog = <<>>
  /\ thrown = NoError
  /\ fetched = NoResponse
  /\ observed = NoCall
  /\ warned = FALSE

\* Nothing observable happens in the step.
Quiet ==
  /\ request' = NoRequest
  /\ applied' = NoManifest
  /\ cacheLog' = <<>>
  /\ thrown' = NoError
  /\ fetched' = NoResponse

Silent == Quiet /\ warned' = FALSE /\ observed' = NoCall

\* ---------------------------------------------------------------- scheduler
\* Promise jobs run before the event loop takes its next timer or I/O
\* callback: a call whose next step is a promise job (the .then(() =>
\* this.tryUpdate()) of the chain, the continuation of `await
\* this.updateManifest(...)`, the .then/.catch handler, the settling of the
\* promise checkForUpdate() returned) holds back the interval callback and the
\* completion of fetch(), text() and json().
PromiseJobs == {"scheduled", "awaitUpdate", "tryDone", "handled", "joined"}
JobsPending == \E c \in DOMAIN calls : calls[c].pc \in PromiseJobs

FreeSlots == {c \in Slots : calls[c].pc = "free"}
\* The next invocation takes the lowest free slot.
NewSlot == CHOOSE c \in FreeSlots : \A d \in FreeSlots : c <= d

MinusInfinity == [inf |-> -1, ms |-> 0]
Finite(n) == [inf |-> 0, ms |-> n]
\* x > n for x a number or an infinity
GreaterThan(x, n) == IF x.inf = 0 THEN x.ms > n ELSE x.inf = 1

timeSinceLastSuccessfulCheck ==
  IF lastSuccessfulCheck = Never
  THEN MinusInfinity
  ELSE Finite(now * 1000 - lastSuccessfulCheck * 1000)

\* warnWhenLossOfSync prints the warning
warnWhenLossOfSync ==
  GreaterThan(timeSinceLastSuccessfulCheck, SYNC_WARN_TIME_SECONDS * 1000)

resetRequestInFlight == NoPromise

\* Mutant: the in-flight guard never sees a pending check.
inFlightNever == FALSE

\* if (this.requestInFlight)
inFlight == requestInFlight.state # "null"

\* The synchronous part of checkForUpdate(), called by `kind` into slot c.
checkForUpdate(c, kind) ==
  /\ warned' = warnWhenLossOfSync
  /\ IF inFlight
     THEN \* return this.requestInFlight: the caller's promise follows it
          /\ calls' = [calls EXCEPT ![c] =
                 [pc |-> "joined", kind |-> kind, role |-> "joiner",
                  check |-> requestInFlight.id,
                  res |-> [state |-> requestInFlight.state,
                           value |-> requestInFlight.value],
                  hdr |-> NoHeader]]
          /\ UNCHANGED <<requestInFlight, checkpoint>>
     ELSE \* this.requestInFlight = Promise.resolve(); the chain is built
          /\ timesChecked < MaxChecks
          /\ requestInFlight' = PromiseResolve(timesChecked + 1)
          /\ checkpoint' = Snapshot(lastOperationSignatures, cache, lastSuccessfulETag)
          /\ calls' = [calls EXCEPT ![c] =
                 [pc |-> "scheduled", kind |-> kind, role |-> "initiator",
                  check |-> timesChecked + 1, res |-> Pending, hdr |-> NoHeader]]
  /\ Quiet /\ observed' = NoCall
  /\ UNCHANGED <<timesChecked, lastSuccessfulCheck, lastSuccessfulETag,
                 lastOperationSignatures, cache, now, options, agent, flagAgent, crashed, stopped>>

\* start(), up to `await pulse()`.
Start ==
  /\ startPc # "awaiting"
  /\ FreeSlots # {}
  /\ startPc' = "awaiting"
  /\ checkForUpdate(NewSlot, "start")
  /\ UNCHANGED timer

\* The setInterval callback: pulse().catch(...)
Tick ==
  /\ timer = "armed"
  /\ ~JobsPending
  /\ FreeSlots # {}
  /\ checkForUpdate(NewSlot, "tick")
  /\ UNCHANGED <<timer, startPc>>

\* checkForUpdate() called by the embedding code.
DirectCheck ==
  /\ FreeSlots # {}
  /\ checkForUpdate(NewSlot, "direct")
  /\ UNCHANGED <<timer, startPc>>

\* Mutant: stop() leaves the interval running.
stopKeepsInterval == timer

\* stop(): clearInterval(this.timer) when this.timer is set; the field keeps
\* the cleared timer object.
stop == IF timer # "undefined" THEN "cleared" ELSE timer

Stop ==
  /\ timer' = stop
  /\ Silent
  /\ UNCHANGED <<requestInFlight, timesChecked, lastSuccessfulCheck,
                 lastSuccessfulETag, lastOperationSignatures, cache, now, options, agent, flagAgent, checkpoint, startPc,
                 calls, crashed>>
  /\ stopped' = TRUE

\* tryUpdate() up to `await fetch(...)`.
TryUpdateStart(c) ==
  /\ calls[c].pc = "scheduled"
  /\ timesChecked' = timesChecked + 1
  /\ calls' = [calls EXCEPT ![c].pc = "fetching"]
  /\ request' = fetchOptions(lastSuccessfulETag)
  /\ applied' = NoManifest /\ cacheLog' = <<>> /\ thrown' = NoError
  /\ fetched' = NoResponse /\ warned' = FALSE /\ observed' = NoCall
  /\ UNCHANGED <<requestInFlight, lastSuccessfulCheck, lastSuccessfulETag,
                 lastOperationSignatures, timer, cache, now, options, agent, flagAgent, checkpoint, startPc, crashed, stopped>>

\* fetch() rejects: the error is re-thrown with a longer message.
FetchRejects(c) ==
  /\ calls[c].pc = "fetching"
  /\ ~JobsPending
  /\ calls' = [calls EXCEPT ![c].pc = "tryDone", ![c].res = Rejected(ErrFetch)]
  /\ Silent
  /\ UNCHANGED <<requestInFlight, timesChecked, lastSuccessfulCheck,
                 lastSuccessfulETag, lastOperationSignatures, timer, cache, now, options, agent, flagAgent, checkpoint,
                 startPc, crashed, stopped>>

\* Mutant: a 304 is handled like any other status.
notModifiedNever(r) == FALSE

\* response.status === 304
notModified(r) == r.status = 304

\* tryUpdate() from the resolution of fetch() to its next await or its end.
afterFetch(call, r) ==
  IF notModified(r)
  THEN [call EXCEPT !.pc = "tryDone", !.res = Resolved("false")]
  ELSE IF ~ok(r)
  THEN [call EXCEPT !.pc = "text"]
  ELSE IF r.contentType \notin {Null, ""} /\ r.contentType # "application/json"
  THEN [call EXCEPT !.pc = "tryDone", !.res = Rejected(ErrContentType)]
  ELSE [call EXCEPT !.pc = "json", !.hdr = r.etag]

FetchResolves(c, r) ==
  /\ calls[c].pc = "fetching"
  /\ ~JobsPending
  /\ calls' = [calls EXCEPT ![c] = afterFetch(calls[c], r)]
  /\ fetched' = r
  /\ applied' = NoManifest /\ cacheLog' = <<>> /\ thrown' = NoError
  /\ request' = NoRequest
  /\ warned' = FALSE /\ observed' = NoCall
  /\ UNCHANGED <<requestInFlight, timesChecked, lastSuccessfulCheck,
                 lastSuccessfulETag, lastOperationSignatures, timer, cache, now, options, agent, flagAgent, checkpoint,
                 startPc, crashed, stopped>>

\* `await response.text()` settles and the Error is thrown.
TextSettles(c) ==
  /\ calls[c].pc = "text"
  /\ ~JobsPending
  /\ calls' = [calls EXCEPT ![c].pc = "tryDone", ![c].res = Rejected(ErrStatus)]
  /\ Silent
  /\ UNCHANGED <<requestInFlight, timesChecked, lastSuccessfulCheck,
                 lastSuccessfulETag, lastOperationSignatures, timer, cache, now, options, agent, flagAgent, checkpoint,
                 startPc, crashed, stopped>>

\* `await response.json()` rejects: the body is no JSON.
JsonRejects(c) ==
  /\ calls[c].pc = "json"
  /\ ~JobsPending
  /\ calls' = [calls EXCEPT ![c].pc = "tryDone", ![c].res = Rejected(ErrJson),
                            ![c].hdr = NoHeader]
  /\ Silent
  /\ UNCHANGED <<requestInFlight, timesChecked, lastSuccessfulCheck,
                 lastSuccessfulETag, lastOperationSignatures, timer, cache, now, options, agent, flagAgent, checkpoint,
                 startPc, crashed, stopped>>

\* `await response.json()` resolves with manifest m and updateManifest(m) runs
\* (it has no await of its own, so it runs to its end in this step).
JsonResolves(c, m) ==
  /\ calls[c].pc = "json"
  /\ ~JobsPending
  /\ LET u == updateManifest(lastOperationSignatures, m) IN
       /\ cache' = ApplyCalls(cache, u.calls)
       /\ lastOperationSignatures' = u.signatures
       /\ cacheLog' = u.calls
       /\ calls' = [calls EXCEPT ![c].pc = "awaitUpdate",
                                 ![c].res = IF u.error = NoError
                                              THEN Resolved(Undefined)
                                              ELSE Rejected(u.error)]
  /\ applied' = m
  /\ thrown' = NoError /\ fetched' = NoResponse /\ warned' = FALSE
  /\ observed' = NoCall /\ request' = NoRequest
  /\ UNCHANGED <<requestInFlight, timesChecked, lastSuccessfulCheck,
                 lastSuccessfulETag, timer, now, options, agent, flagAgent, checkpoint, startPc, crashed, stopped>>

\* tryUpdate() after `await this.updateManifest(...)`: the etag capture.
afterUpdate(call, etag) ==
  IF call.res.state = "rejected"
  THEN [call |-> [call EXCEPT !.pc = "tryDone", !.hdr = NoHeader], etag |-> etag]
  ELSE IF call.hdr # NoHeader
  THEN IF JSONParse(call.hdr).ok
       THEN [call |-> [call EXCEPT !.pc = "tryDone", !.res = Resolved("true"),
                                   !.hdr = NoHeader],
             etag |-> JSONParse(call.hdr).value]
       ELSE [call |-> [call EXCEPT !.pc = "tryDone", !.res = Rejected(ErrSyntax),
                                   !.hdr = NoHeader],
             etag |-> etag]
  ELSE [call |-> [call EXCEPT !.pc = "tryDone", !.res = Resolved("true")],
        etag |-> etag]

UpdateSettles(c) ==
  /\ calls[c].pc = "awaitUpdate"
  /\ calls' = [calls EXCEPT ![c] = afterUpdate(calls[c], lastSuccessfulETag).call]
  /\ lastSuccessfulETag' = afterUpdate(calls[c], lastSuccessfulETag).etag
  /\ Silent
  /\ UNCHANGED <<requestInFlight, timesChecked, lastSuccessfulCheck,
                 lastOperationSignatures, timer, cache, now, options, agent, flagAgent, checkpoint, startPc, crashed, stopped>>

\* Mutant: the .then handler does not record the time.
thenHandlerKeepsTimestamp(result) ==
  [lastSuccessfulCheck |-> lastSuccessfulCheck,
   requestInFlight |-> resetRequestInFlight, res |-> Resolved(result)]

\* .then(result => { lastSuccessfulCheck = new Date(); resetRequestInFlight();
\* return result }): what it leaves in the fields and passes down the chain.
thenHandler(result) ==
  [lastSuccessfulCheck |-> now, requestInFlight |-> resetRequestInFlight,
   res |-> Resolved(result)]

\* Mutant: the .catch handler records the time like the .then handler.
catchHandlerMarksSuccess(err) ==
  [lastSuccessfulCheck |-> now,
   requestInFlight |-> resetRequestInFlight, res |-> Rejected(err)]

\* Mutant: the .catch handler re-throws without erasing the reference.
catchHandlerKeepsMarker(err) ==
  [lastSuccessfulCheck |-> lastSuccessfulCheck,
   requestInFlight |-> requestInFlight, res |-> Rejected(err)]

\* .catch(err => { resetRequestInFlight(); throw err })
catchHandler(err) ==
  [lastSuccessfulCheck |-> lastSuccessfulCheck,
   requestInFlight |-> resetRequestInFlight, res |-> Rejected(err)]

\* The promise of tryUpdate() has settled: the .then or the .catch handler runs.
ChainHandler(c) ==
  /\ calls[c].pc = "tryDone"
  /\ LET h == IF calls[c].res.state = "resolved"
                THEN thenHandler(calls[c].res.value)
                ELSE catchHandler(calls[c].res.value)
     IN /\ lastSuccessfulCheck' = h.lastSuccessfulCheck
        /\ requestInFlight' = h.requestInFlight
        /\ calls' = [calls EXCEPT ![c].pc = "handled", ![c].res = h.res]
  /\ Silent
  /\ UNCHANGED <<timesChecked, lastSuccessfulETag, lastOperationSignatures, timer,
                 cache, now, options, agent, flagAgent, checkpoint, startPc, crashed, stopped>>

\* start() after `await pulse()`: try/catch logs a rejection, then
\* this.timer = this.timer || setInterval(...), and start() returns.
afterPulse(res) ==
  [startPc |-> "returned",
   timer |-> IF timer # "undefined" THEN timer ELSE "armed"]

\* Mutant: the interval callback has no .catch and a failure ends the timer.
afterTickUncaught(res) ==
  [crashed |-> res.state = "rejected",
   timer |-> IF res.state = "rejected" THEN "cleared" ELSE timer]

\* pulse().catch(err => console.error(...)) in the interval callback: whether
\* the rejection is left unhandled, and what becomes of the timer.
afterTick(res) == [crashed |-> FALSE, timer |-> timer]

\* The promise checkForUpdate() returned settles, following the chain
\* (initiator) or the promise found in requestInFlight (joiner), and the
\* caller's continuation runs on it.
Resume(c) ==
  /\ calls[c].pc \in {"handled", "joined"}
  \* jobs run in the order queued: the chain's first job was queued before
  \* any job of a call that found the chain's promise in requestInFlight
  /\ \A d \in Slots : calls[d].pc = "scheduled" => calls[d].check # calls[c].check
  /\ calls' = [calls EXCEPT ![c] = FreeSlot]
  /\ observed' = [kind |-> calls[c].kind, role |-> calls[c].role,
                  check |-> calls[c].check, res |-> calls[c].res]
  /\ CASE calls[c].kind = "start" ->
            /\ startPc' = afterPulse(calls[c].res).startPc
            /\ timer' = afterPulse(calls[c].res).timer
            /\ UNCHANGED crashed
       [] calls[c].kind = "tick" ->
            /\ crashed' = (crashed \/ afterTick(calls[c].res).crashed)
            /\ timer' = afterTick(calls[c].res).timer
            /\ UNCHANGED startPc
       [] OTHER -> UNCHANGED <<startPc, timer, crashed>>
  /\ checkpoint' = (IF calls[c].role = "initiator" THEN NoSnapshot ELSE checkpoint)
  /\ Quiet /\ warned' = FALSE
  /\ UNCHANGED <<requestInFlight, timesChecked, lastSuccessfulCheck,
                 lastSuccessfulETag, lastOperationSignatures, cache, now, options, agent, flagAgent, stopped>>

\* updateManifest(m) called directly by the embedding code.
UpdateManifest(m) ==
  /\ LET u == updateManifest(lastOperationSignatures, m) IN
       /\ cache' = ApplyCalls(cache, u.calls)
       /\ lastOperationSignatures' = u.signatures
       /\ cacheLog' = u.calls
       /\ thrown' = u.error
  /\ applied' = m
  /\ fetched' = NoResponse /\ warned' = FALSE /\ observed' = NoCall
  /\ request' = NoRequest
  /\ UNCHANGED <<requestInFlight, timesChecked, lastSuccessfulCheck,
                 lastSuccessfulETag, timer, now, options, agent, flagAgent, checkpoint, startPc, calls, crashed, stopped>>

\* The cache calls that take effect when those at the positions `lost` fail.
RECURSIVE Surviving(_, _, _)
Surviving(log, i, lost) ==
  IF i > Len(log) THEN <<>>
  ELSE (IF i \in lost THEN <<>> ELSE <<log[i]>>) \o Surviving(log, i + 1, lost)

\* updateManifest(m) called directly, with a cache some of whose set() and
\* delete() calls fail: their promises are not awaited, so updateManifest()
\* goes on as if they had succeeded.
UpdateManifestLossy(m, lost) ==
  /\ LET u == updateManifest(lastOperationSignatures, m) IN
       /\ lost \subseteq 1..Len(u.calls)
       /\ cache' = ApplyCalls(cache, Surviving(u.calls, 1, lost))
       /\ lastOperationSignatures' = u.signatures
       /\ cacheLog' = u.calls
       /\ thrown' = u.error
  /\ applied' = m
  /\ fetched' = NoResponse /\ warned' = FALSE /\ observed' = NoCall
  /\ request' = NoRequest
  /\ UNCHANGED <<options, agent, flagAgent, checkpoint, requestInFlight, timesChecked,
                 lastSuccessfulCheck, lastSuccessfulETag, timer, now, startPc,
                 calls, crashed, stopped>>

\* Time passes.
AdvanceClock ==
  /\ now < MaxClock * DEFAULT_POLL_SECONDS
  /\ now' = now + DEFAULT_POLL_SECONDS
  /\ Silent
  /\ UNCHANGED <<options, agent, flagAgent, checkpoint, requestInFlight, timesChecked,
                 lastSuccessfulCheck, lastSuccessfulETag, lastOperationSignatures,
                 timer, cache, startPc, calls, crashed, stopped>>

\* ------------------------------------- the boolean-flag Agent (engine package)
\* const cacheKey = (signature) => `apq:${signature}`
cacheKey(signature) == "apq:" \o signature

\* Map.prototype.set on a Map kept as the sequence of its entries in insertion
\* order: an existing key keeps its place and takes the new value.
MapSet(map, k, v) ==
  IF \E i \in 1..Len(map) : map[i].signature = k
  THEN [i \in 1..Len(map) |-> IF map[i].signature = k
                                THEN [signature |-> k, document |-> v] ELSE map[i]]
  ELSE Append(map, [signature |-> k, document |-> v])

\* for (const operation of manifest.operations) incomingOperations.set(...)
RECURSIVE FlagIncoming(_, _, _)
FlagIncoming(ops, i, acc) ==
  IF i > Len(ops) THEN acc
  ELSE IF ops[i].isNull THEN [acc EXCEPT !.threw = TRUE]
  ELSE FlagIncoming(ops, i + 1,
         [map |-> MapSet(acc.map, ops[i].signature, ops[i].document), threw |-> FALSE])

\* incomingOperations.forEach(...): the cache.set calls, from entry i on.
RECURSIVE FlagAdds(_, _, _)
FlagAdds(map, i, last) ==
  IF i > Len(map) THEN <<>>
  ELSE (IF map[i].signature \notin Range(last)
          THEN <<CacheSet(cacheKey(map[i].signature), map[i].document)>> ELSE <<>>)
       \o FlagAdds(map, i + 1, last)

\* this.lastOperationSignatures.forEach(...): the cache.delete calls.
RECURSIVE FlagPurges(_, _, _)
FlagPurges(last, i, incoming) ==
  IF i > Len(last) THEN <<>>
  ELSE (IF last[i] \notin incoming THEN <<CacheDelete(cacheKey(last[i]))>> ELSE <<>>)
       \o FlagPurges(last, i + 1, incoming)

\* updateManifest(manifest) of the boolean-flag Agent.
flagUpdateManifest(last, manifest) ==
  IF ~validShape(manifest)
  THEN [calls |-> <<>>, signatures |-> last, error |-> ErrInvalidManifest]
  ELSE LET inc == FlagIncoming(manifest.operations, 1, [map |-> <<>>, threw |-> FALSE])
           sigs == [i \in 1..Len(inc.map) |-> inc.map[i].signature]
       IN IF inc.threw
          THEN [calls |-> <<>>, signatures |-> last, error |-> ErrTypeError]
          ELSE [calls |-> FlagAdds(inc.map, 1, last) \o FlagPurges(last, 1, Range(sigs)),
                signatures |-> sigs,
                error |-> NoError]

FlagFreeRuns == {i \in Slots : flagAgent.runs[i].pc = "free"}
FlagNewRun == CHOOSE i \in FlagFreeRuns : \A j \in FlagFreeRuns : i <= j

\* warnWhenLossOfSync of the boolean-flag Agent prints the warning
flagWarnWhenLossOfSync ==
  GreaterThan(IF flagAgent.lastSuccessfulCheck = Never
                THEN MinusInfinity
                ELSE Finite(now * 1000 - flagAgent.lastSuccessfulCheck * 1000),
              SYNC_WARN_TIME_SECONDS * 1000)

\* checkForUpdate() of the boolean-flag Agent. It has no await: it runs as
\* one step, tryUpdate() running inside it up to its `await fetch(...)`. The
\* promise tryUpdate() returns is an object, so `if (this.tryUpdate())` takes
\* the branch, and `finally` puts the flag back before the step ends.
flagCheckForUpdate(f) ==
  IF f.requestInFlight
  THEN [agent |-> f, request |-> NoRequest]
  ELSE LET inFlightSet == [f EXCEPT !.requestInFlight = TRUE]
           tried == [inFlightSet EXCEPT !.runs[FlagNewRun].pc = "fetching"]
           marked == IF truthy(Value("object", "Promise"))
                       THEN [tried EXCEPT !.lastSuccessfulCheck = now]
                       ELSE tried
       IN [agent |-> [marked EXCEPT !.requestInFlight = FALSE],
           request |-> fetchOptions(f.lastSuccessfulETag)]

FlagMain ==
  UNCHANGED <<options, agent, checkpoint, requestInFlight, timesChecked,
              lastSuccessfulCheck, lastSuccessfulETag, lastOperationSignatures,
              timer, cache, now, startPc, calls, crashed, stopped>>

\* checkForUpdate() called by the embedding code.
FlagCheck ==
  /\ FlagFreeRuns # {}
  /\ flagAgent' = flagCheckForUpdate(flagAgent).agent
  /\ request' = flagCheckForUpdate(flagAgent).request
  /\ warned' = flagWarnWhenLossOfSync
  /\ applied' = NoManifest /\ cacheLog' = <<>> /\ thrown' = NoError
  /\ fetched' = NoResponse /\ observed' = NoCall
  /\ FlagMain

\* start(), up to `await this.checkForUpdate()`: the check runs in the
\* caller's turn and start() waits for a promise job.
FlagStart ==
  /\ ~flagAgent.starting
  /\ FlagFreeRuns # {}
  /\ flagAgent' = [flagCheckForUpdate(flagAgent).agent EXCEPT !.starting = TRUE]
  /\ request' = flagCheckForUpdate(flagAgent).request
  /\ warned' = flagWarnWhenLossOfSync
  /\ applied' = NoManifest /\ cacheLog' = <<>> /\ thrown' = NoError
  /\ fetched' = NoResponse /\ observed' = NoCall
  /\ FlagMain

\* start() after the await: this.timer = this.timer || setInterval(...)
FlagStartResumes ==
  /\ flagAgent.starting
  /\ flagAgent' = [flagAgent EXCEPT !.starting = FALSE, !.timer = "armed"]
  /\ Silent
  /\ FlagMain

\* Promise jobs run before the event loop takes its next timer or I/O
\* callback: a start() waiting to resume holds those back.
FlagJobsPending == flagAgent.starting

\* The setInterval callback: await this.checkForUpdate()
FlagTick ==
  /\ flagAgent.timer = "armed"
  /\ ~FlagJobsPending
  /\ FlagCheck

\* updateManifest(m) of the boolean-flag Agent called by the embedding code.
FlagUpdateManifest(m) ==
  /\ LET u == flagUpdateManifest(flagAgent.lastOperationSignatures, m) IN
       /\ flagAgent' = [flagAgent EXCEPT !.cache = ApplyCalls(flagAgent.cache, u.calls),
                                         !.lastOperationSignatures = u.signatures]
       /\ cacheLog' = u.calls
       /\ thrown' = u.error
  /\ applied' = m
  /\ fetched' = NoResponse /\ warned' = FALSE /\ observed' = NoCall
  /\ request' = NoRequest
  /\ FlagMain

\* fetch() rejects: tryUpdate() rejects, and nobody holds its promise.
FlagFetchRejects(i) ==
  /\ flagAgent.runs[i].pc = "fetching"
  /\ ~FlagJobsPending
  /\ flagAgent' = [flagAgent EXCEPT !.runs[i] = FlagFreeRun, !.unhandled = TRUE]
  /\ Silent
  /\ FlagMain

\* tryUpdate() of the boolean-flag Agent from the resolution of fetch() on.
flagAfterFetch(f, i, r) ==
  IF r.status = 304
  THEN [f EXCEPT !.runs[i] = FlagFreeRun, !.returned = TRUE]
  ELSE IF ~ok(r)
  THEN [f EXCEPT !.runs[i].pc = "text"]
  ELSE IF r.contentType \notin {Null, ""} /\ r.contentType # "application/json"
  THEN [f EXCEPT !.runs[i] = FlagFreeRun, !.unhandled = TRUE]
  ELSE [f EXCEPT !.runs[i] = [pc |-> "json", hdr |-> r.etag]]

FlagFetchResolves(i, r) ==
  /\ flagAgent.runs[i].pc = "fetching"
  /\ ~FlagJobsPending
  /\ flagAgent' = flagAfterFetch(flagAgent, i, r)
  /\ fetched' = r
  /\ applied' = NoManifest /\ cacheLog' = <<>> /\ thrown' = NoError
  /\ request' = NoRequest /\ warned' = FALSE /\ observed' = NoCall
  /\ FlagMain

FlagTextSettles(i) ==
  /\ flagAgent.runs[i].pc = "text"
  /\ ~FlagJobsPending
  /\ flagAgent' = [flagAgent EXCEPT !.runs[i] = FlagFreeRun, !.unhandled = TRUE]
  /\ Silent
  /\ FlagMain

FlagJsonRejects(i) ==
  /\ flagAgent.runs[i].pc = "json"
  /\ ~FlagJobsPending
  /\ flagAgent' = [flagAgent EXCEPT !.runs[i] = FlagFreeRun, !.unhandled = TRUE]
  /\ Silent
  /\ FlagMain

\* tryUpdate() from the resolution of response.json() to its end:
\* this.updateManifest(...) is not awaited, so a rejection of it is left
\* unhandled and the etag capture follows in any case.
flagAfterJson(f, i, m) ==
  LET u == flagUpdateManifest(f.lastOperationSignatures, m)
      hdr == f.runs[i].hdr
      parsed == JSONParse(hdr)
      updated == [f EXCEPT !.cache = ApplyCalls(f.cache, u.calls),
                           !.lastOperationSignatures = u.signatures,
                           !.unhandled = f.unhandled \/ u.error # NoError,
                           !.runs[i] = FlagFreeRun]
  IN [calls |-> u.calls,
      agent |-> IF hdr = NoHeader THEN [updated EXCEPT !.returned = TRUE]
                ELSE IF parsed.ok
                THEN [updated EXCEPT !.lastSuccessfulETag = parsed.value,
                                     !.returned = TRUE]
                ELSE [updated EXCEPT !.unhandled = TRUE]]

FlagJsonResolves(i, m) ==
  /\ flagAgent.runs[i].pc = "json"
  /\ ~FlagJobsPending
  /\ flagAgent' = flagAfterJson(flagAgent, i, m).agent
  /\ cacheLog' = flagAfterJson(flagAgent, i, m).calls
  /\ applied' = m
  /\ thrown' = NoError /\ fetched' = NoResponse /\ warned' = FALSE
  /\ observed' = NoCall /\ request' = NoRequest
  /\ FlagMain

\* What the endpoint serves in the scheduler's specification: the manifest
\* {a: docA} and its successor {b: docB} or a null body, under a quoted
\* validator token; a page that is no manifest; not-modified; a server error.
PolledManifests ==
  {Manifest(1, <<Op("a", "docA")>>), Manifest(1, <<Op("b", "docB")>>), NullManifest}
PolledResponses ==
  {Response(200, "application/json", EtagV1), Response(200, "text/html", NoHeader),
   Response(304, Null, NoHeader), Response(500, "text/html", NoHeader)}

\* The agent as the plugin drives it: start(), stop(), the interval timer and
\* direct checkForUpdate() calls, in every interleaving.
Next ==
  \/ Start
  \/ Tick
  \/ DirectCheck
  \/ Stop
  \/ \E c \in Slots : TryUpdateStart(c)
  \/ \E c \in Slots : FetchRejects(c)
  \/ \E c \in Slots, r \in PolledResponses : FetchResolves(c, r)
  \/ \E c \in Slots : TextSettles(c)
  \/ \E c \in Slots : JsonRejects(c)
  \/ \E c \in Slots, m \in PolledManifests : JsonResolves(c, m)
  \/ \E c \in Slots : UpdateSettles(c)
  \/ \E c \in Slots : ChainHandler(c)
  \/ \E c \in Slots : Resume(c)

Spec == Init /\ [][Next]_vars

\* One checkForUpdate() at a time, called when no other call is outstanding,
\* against every response and every body the endpoint can serve.
SoloCheck ==
  /\ \A c \in Slots : calls[c].pc = "free"
  /\ DirectCheck

\* updateManifest() called directly while no check is outstanding.
SoloUpdate(m) ==
  /\ \A c \in Slots : calls[c].pc = "free"
  /\ UpdateManifest(m)

NextFetcher ==
  \/ SoloCheck
  \/ \E m \in Manifests : SoloUpdate(m)
  \/ \E c \in Slots : TryUpdateStart(c)
  \/ \E c \in Slots : FetchRejects(c)
  \/ \E c \in Slots, r \in Responses : FetchResolves(c, r)
  \/ \E c \in Slots : TextSettles(c)
  \/ \E c \in Slots : JsonRejects(c)
  \/ \E c \in Slots, m \in Manifests : JsonResolves(c, m)
  \/ \E c \in Slots : UpdateSettles(c)
  \/ \E c \in Slots : ChainHandler(c)
  \/ \E c \in Slots : Resume(c)

SpecFetcher == Init /\ [][NextFetcher]_vars

\* One checkForUpdate() at a time while the clock runs, the endpoint serving
\* what it serves in the scheduler's specification.
NextTimed ==
  \/ SoloCheck
  \/ AdvanceClock
  \/ \E c \in Slots : TryUpdateStart(c)
  \/ \E c \in Slots : FetchRejects(c)
  \/ \E c \in Slots, r \in PolledResponses : FetchResolves(c, r)
  \/ \E c \in Slots : TextSettles(c)
  \/ \E c \in Slots : JsonRejects(c)
  \/ \E c \in Slots, m \in PolledManifests : JsonResolves(c, m)
  \/ \E c \in Slots : UpdateSettles(c)
  \/ \E c \in Slots : ChainHandler(c)
  \/ \E c \in Slots : Resume(c)

SpecTimed == Init /\ [][NextTimed]_vars

\* The boolean-flag Agent as its plugin drives it.
NextFlag ==
  \/ FlagStart
  \/ FlagStartResumes
  \/ \E m \in Manifests : FlagUpdateManifest(m)
  \/ FlagTick
  \/ FlagCheck
  \/ \E i \in Slots : FlagFetchRejects(i)
  \/ \E i \in Slots, r \in PolledResponses : FlagFetchResolves(i, r)
  \/ \E i \in Slots : FlagTextSettles(i)
  \/ \E i \in Slots : FlagJsonRejects(i)
  \/ \E i \in Slots, m \in PolledManifests : FlagJsonResolves(i, m)

SpecFlag == Init /\ [][NextFlag]_vars

\* new Agent(options)
Construct ==
  /\ agent = "none"
  /\ agent' = IF constructor(options) = NoError THEN "constructed" ELSE "threw"
  /\ thrown' = constructor(options)
  /\ request' = NoRequest /\ applied' = NoManifest /\ cacheLog' = <<>>
  /\ fetched' = NoResponse /\ warned' = FALSE /\ observed' = NoCall
  /\ UNCHANGED <<options, flagAgent, checkpoint, requestInFlight, timesChecked,
                 lastSuccessfulCheck, lastSuccessfulETag, lastOperationSignatures,
                 timer, cache, now, startPc, calls, crashed, stopped>>

\* Any options object handed to the constructor; the methods of the agent can
\* be called only if the constructor returned one.
InitConstructor ==
  /\ options \in AllOptions
  /\ agent = "none"
  /\ flagAgent = FlagInit
  /\ checkpoint = NoSnapshot
  /\ request = NoRequest
  /\ requestInFlight = NoPromise
  /\ timesChecked = 0
  /\ lastSuccessfulCheck = Never
  /\ lastSuccessfulETag = Undefined
  /\ lastOperationSignatures = <<>>
  /\ timer = "undefined"
  /\ cache = [k \in CacheKeys |-> Absent]
  /\ now = 0
  /\ startPc = "none"
  /\ calls = [c \in Slots |-> FreeSlot]
  /\ crashed = FALSE
  /\ stopped = FALSE
  /\ applied = NoManifest
  /\ cacheLog = <<>>
  /\ thrown = NoError
  /\ fetched = NoResponse
  /\ observed = NoCall
  /\ warned = FALSE

NextConstructor ==
  \/ Construct
  \/ agent = "constructed" /\ NextTimed

SpecConstructor == InitConstructor /\ [][NextConstructor]_vars

\* The reconciler alone: a fresh agent whose updateManifest() is called
\* directly, any number of times.
NextReconciler == \E m \in Manifests : UpdateManifest(m)

SpecReconciler == Init /\ [][NextReconciler]_vars

\* The reconciler over a cache whose calls may fail.
NextLossy ==
  \E m \in Manifests : \E lost \in SUBSET (1..(2 * MaxOps)) : UpdateManifestLossy(m, lost)

SpecLossy == Init /\ [][NextLossy]_vars

\* ==================================================================== claims
RunningCalls == {c \in Slots : calls[c].pc \in Running}
\* The calls whose tryUpdate() has begun and has not settled into a handler.
Fetching == {c \in Slots : calls[c].pc \in Running \ {"scheduled"}}

\* C1: at most one check is in flight: while a call's check runs no other
\* call runs a check of its own, and from the moment its tryUpdate() began the
\* check counter stands exactly one above its value at the call, whatever
\* other checkForUpdate() calls were made meanwhile.
C1_OneCheckInFlight ==
  /\ Cardinality(RunningCalls) <= 1
  /\ \A c \in RunningCalls :
       /\ calls[c].role = "initiator"
       /\ timesChecked = (IF c \in Fetching THEN calls[c].check ELSE calls[c].check - 1)

\* C1 witness: a fetch is pending, a second checkForUpdate() has been made
\* meanwhile and shares the first one's check, and one request was issued.
C1_Witness ==
  \E c, d \in Slots :
    /\ calls[c].pc = "fetching" /\ calls[c].kind = "direct"
    /\ calls[d].pc = "joined" /\ calls[d].kind = "direct"
    /\ calls[d].check = calls[c].check
    /\ timesChecked = 1

\* C2: a checkForUpdate() call made while a check is in flight settles only
\* when that check has settled, and with the same result: when the joiner's
\* promise settles, the check it joined is no longer running, and it carries
\* the result of that check's chain.
C2_JoinerSharesResult ==
  observed.role = "joiner" =>
    \A c \in Slots :
      (calls[c].role = "initiator" /\ calls[c].check = observed.check) =>
        /\ calls[c].pc \notin Running
        /\ calls[c].res = observed.res

\* The "apq:"-prefixed keys the cache holds, and the keys of a signature set.
KeysIn(c) == {k \in DOMAIN c : c[k] # Absent}
KeysOf(S) == {getCacheKey(sig) : sig \in S}
KnownSignatures == Range(lastOperationSignatures)

\* C3: from a state in which the cache's keys are those of KnownSignatures
\* (the fresh agent is one), applying a valid manifest leaves the cache with
\* exactly the keys of that manifest's signatures, KnownSignatures equal to
\* them, and no cache call on a key outside the previous and the incoming
\* signatures; so after any sequence of valid manifests the keys are those of
\* the last one.
C3_Step ==
  (applied' \in ValidManifests /\ KeysIn(cache) = KeysOf(KnownSignatures)) =>
    /\ KeysIn(cache') = KeysOf(signatures(applied'))
    /\ KnownSignatures' = signatures(applied')
    /\ \A i \in 1..Len(cacheLog') :
         cacheLog'[i].key \in KeysOf(KnownSignatures \cup signatures(applied'))
C3_CacheMatchesLastManifest == [][C3_Step]_vars

\* C3 witness: {a: docA} then {b: docB} has been applied: "apq:a" was deleted,
\* "apq:b" added, and the cache is exactly {"apq:b": "docB"}.
C3_Witness ==
  /\ applied = Manifest(1, <<Op("b", "docB")>>)
  /\ cacheLog = <<CacheSet("apq:b", "docB"), CacheDelete("apq:a")>>
  /\ cache = [k \in CacheKeys |-> IF k = "apq:b" THEN "docB" ELSE Absent]
  /\ lastOperationSignatures = <<"b">>

\* C4: in every state reached by applying a valid manifest M, whatever the
\* state before, KnownSignatures is signatures(M) and applying M once more
\* issues no cache-set and no cache-delete and keeps KnownSignatures.
C4_SecondApplicationIsNoOp ==
  applied \in ValidManifests =>
    /\ KnownSignatures = signatures(applied)
    /\ updateManifest(lastOperationSignatures, applied).calls = <<>>
    /\ updateManifest(lastOperationSignatures, applied).error = NoError
    /\ Range(updateManifest(lastOperationSignatures, applied).signatures)
         = signatures(applied)

\* C4 witness: a manifest with two operations has just been applied without
\* a single cache call, its signatures being the known ones.
C4_Witness ==
  /\ applied \in ValidManifests
  /\ Len(applied.operations) = 2
  /\ cacheLog = <<>>
  /\ KnownSignatures = signatures(applied)
  /\ KeysIn(cache) = KeysOf(KnownSignatures)

DataUnchanged ==
  /\ lastOperationSignatures' = lastOperationSignatures
  /\ cache' = cache
  /\ lastSuccessfulETag' = lastSuccessfulETag
  /\ cacheLog' = <<>>

\* The result a call carries stays with it until its caller observes it.
Carried(c, result) ==
  IF calls'[c].pc = "free"
  THEN observed'.role = "initiator" /\ observed'.res = result
  ELSE calls'[c].res = result

\* C5: updateManifest() given a manifest that is missing, of a version other
\* than 1 or without an operations array throws 'Invalid manifest format.'
\* and changes neither KnownSignatures nor the cache nor ETagToken, issuing no
\* cache call; through a check, the check then carries that error to its
\* caller, with KnownSignatures, the cache and ETagToken still as they were.
C5_Step ==
  /\ applied' \in InvalidShapeManifests =>
       /\ DataUnchanged
       /\ \/ thrown' = ErrInvalidManifest
          \/ \E c \in Slots :
               /\ calls[c].pc = "json"
               /\ calls'[c].pc = "awaitUpdate"
               /\ calls'[c].res = Rejected(ErrInvalidManifest)
  /\ \A c \in Slots :
       calls[c].res = Rejected(ErrInvalidManifest) =>
         DataUnchanged /\ Carried(c, Rejected(ErrInvalidManifest))
C5_InvalidManifestRejected == [][C5_Step]_vars

\* C5 witness: a check that was served a wrong-shaped manifest has rejected
\* to its caller, the agent holding a token and a known signature from before.
C5_Witness ==
  /\ observed.role = "initiator"
  /\ observed.res = Rejected(ErrInvalidManifest)
  /\ lastSuccessfulETag = "v1"
  /\ lastOperationSignatures = <<"a">>
  /\ cache["apq:a"] = "docA"

\* C6: a fetch answered 304 changes neither KnownSignatures nor the cache nor
\* ETagToken, issues no cache call and calls no updateManifest; tryUpdate()
\* returns false and the checkForUpdate() that started the check resolves
\* with false.
C6_Step ==
  /\ fetched'.status = 304 =>
       /\ DataUnchanged
       /\ applied' = NoManifest
       /\ \E c \in Slots :
            /\ calls[c].pc = "fetching"
            /\ calls'[c].pc = "tryDone"
            /\ calls'[c].res = Resolved("false")
  /\ \A c \in Slots :
       calls[c].res = Resolved("false") =>
         DataUnchanged /\ applied' = NoManifest /\ Carried(c, Resolved("false"))
C6_NotModifiedChangesNothing == [][C6_Step]_vars

\* C6 witness: a check answered 304 has resolved with false to its caller,
\* the agent holding a token and a known signature from before.
C6_Witness ==
  /\ observed.role = "initiator"
  /\ observed.res = Resolved("false")
  /\ lastSuccessfulETag = "v1"
  /\ lastOperationSignatures = <<"a">>
  /\ cache["apq:a"] = "docA"

\* C7: the in-flight marker is cleared by the handler that ends a check,
\* before the result goes on to the initiating caller: the marker is held only
\* while its check runs, the handler passes on what tryUpdate() returned or
\* threw, the caller receives exactly that, a caller who has received it finds
\* that check's marker gone, and a call made while no check runs begins one.
C7_State ==
  /\ requestInFlight.state # "null" =>
       \E c \in RunningCalls : calls[c].check = requestInFlight.id
  /\ observed.role = "initiator" =>
       (requestInFlight.state = "null" \/ requestInFlight.id # observed.check)
C7_Step ==
  \A c \in Slots :
    /\ (calls[c].pc = "tryDone" /\ calls'[c].pc = "handled") =>
         /\ requestInFlight' = NoPromise
         /\ calls'[c].res = calls[c].res
    /\ calls[c].pc = "handled" => Carried(c, calls[c].res)
    /\ (calls[c].pc = "free" /\ calls'[c].pc # "free" /\ RunningCalls = {}) =>
         calls'[c].pc = "scheduled"
C7_MarkerClearedBeforeSettling == []C7_State /\ [][C7_Step]_vars

\* C7 witness: the second of two failed checks has re-thrown its error to
\* the caller that began it, and the marker is clear.
C7_Witness ==
  /\ observed.role = "initiator"
  /\ observed.check = 2
  /\ observed.res.state = "rejected"
  /\ lastSuccessfulCheck = Never
  /\ requestInFlight = NoPromise

\* C8: when start() returns, the check its pulse belonged to has settled,
\* start() has not rejected, and the interval timer is armed.
C8_StartAwaitsCheckAndArms ==
  observed.kind = "start" =>
    /\ startPc = "returned"
    /\ timer = "armed"
    /\ \A c \in Slots : calls[c].check = observed.check => calls[c].pc \notin Running

\* A step in which the interval callback calls checkForUpdate().
TickCalls == \E c \in Slots : calls[c].pc = "free" /\ calls'[c].kind = "tick"

\* A step in which the interval callback begins a check.
TickStarts ==
  \E c \in Slots :
    calls[c].pc = "free" /\ calls'[c].kind = "tick" /\ calls'[c].pc = "scheduled"

\* C9 as claimed: once stop() has returned, no timer tick begins a check
\* again.
C9_NoTickAfterStop == [][stopped => ~TickStarts]_vars

\* C9 amended: stop() called while this.timer is set clears the interval, and
\* from then on the timer stays cleared, whatever start() and stop() calls
\* follow, and no timer tick calls checkForUpdate() again.
C9_Step ==
  /\ (Stop /\ timer # "undefined") => timer' = "cleared"
  /\ timer = "cleared" => (timer' = "cleared" /\ ~TickCalls)
C9_NoTickAfterArmedStop == [][C9_Step]_vars

\* C9 witness: a start() has returned after stop() cleared the armed timer,
\* and the timer is still cleared.
C9_Witness ==
  /\ stopped
  /\ timer = "cleared"
  /\ observed.kind = "start"
  /\ startPc = "returned"

\* C10: no rejection escapes the interval callback, and the continuation of
\* a tick whose check failed leaves the timer as it is.
C10_Step ==
  \A c \in Slots :
    (calls[c].kind = "tick" /\ calls[c].res.state = "rejected"
       /\ calls'[c].pc = "free") =>
      timer' = timer /\ ~crashed'
C10_FailedTickKeepsTimer == [](~crashed) /\ [][C10_Step]_vars

\* C10 witness: a tick began the second check after a failed first one, its
\* own check failed too, the error was caught and the timer is still armed.
C10_Witness ==
  /\ observed.kind = "tick"
  /\ observed.role = "initiator"
  /\ observed.check = 2
  /\ observed.res.state = "rejected"
  /\ lastSuccessfulCheck = Never
  /\ timer = "armed"
  /\ ~crashed

\* The errors of the fetch stage of tryUpdate(): fetch() failed, the status is
\* neither 304 nor 2xx, the content type is refused.
FetchStageErrors == {Rejected(ErrFetch), Rejected(ErrStatus), Rejected(ErrContentType)}

\* A call is at the fetch stage: from checkForUpdate() beginning the check to
\* the response's status and content type being looked at, and from there on
\* the way of a failure to its caller.
AtFetchStage(c) ==
  \/ calls[c].pc = "free" /\ calls'[c].pc = "scheduled"
  \/ calls[c].pc \in {"scheduled", "fetching", "text"}
  \/ calls[c].res \in FetchStageErrors

\* C11: a check that fails at the fetch stage changes neither ETagToken nor
\* KnownSignatures nor the cache nor LastSuccessTimestamp in any of its steps,
\* from its beginning to the rejection reaching its caller, issues no cache
\* call and never calls updateManifest; the failure reaches the caller as it
\* was thrown.
C11_Step ==
  \A c \in Slots :
    /\ AtFetchStage(c) =>
         /\ DataUnchanged
         /\ lastSuccessfulCheck' = lastSuccessfulCheck
         /\ applied' = NoManifest
    /\ calls[c].res \in FetchStageErrors => Carried(c, calls[c].res)
C11_FetchFailureChangesNothing == [][C11_Step]_vars

\* C11 witness: a check answered with a server error has rejected to its
\* caller, the agent holding a token, a known signature and a time of success
\* from an earlier check.
C11_Witness ==
  /\ observed.role = "initiator"
  /\ observed.res = Rejected(ErrStatus)
  /\ lastSuccessfulETag = "v1"
  /\ lastOperationSignatures = <<"a">>
  /\ cache["apq:a"] = "docA"
  /\ lastSuccessfulCheck # Never

\* A step in which the .then handler of a check runs: the check has completed
\* without error.
SuccessHandled ==
  \E c \in Slots :
    calls[c].pc = "tryDone" /\ calls'[c].pc = "handled" /\ calls[c].res.state = "resolved"

\* C12: LastSuccessTimestamp becomes the current time in the step in which a
\* check completes without error and is left alone by every other step, a
\* failing check's among them; and what the agent decides is fixed by state
\* other than LastSuccessTimestamp: a call begins a check iff no check is in
\* flight, a begun check makes its request, the request carries the stored
\* token and nothing else, and the cache calls are those updateManifest()
\* derives from KnownSignatures and the manifest.
C12_Step ==
  /\ lastSuccessfulCheck' = (IF SuccessHandled THEN now ELSE lastSuccessfulCheck)
  /\ \A c \in Slots :
       /\ (calls[c].pc = "free" /\ calls'[c].pc # "free") =>
            ((calls'[c].pc = "scheduled") = (requestInFlight = NoPromise))
       /\ (calls[c].pc = "scheduled" /\ calls'[c].pc # "scheduled") => request'.made
  /\ request'.made => request' = fetchOptions(lastSuccessfulETag)
  /\ cacheLog' = (IF applied' = NoManifest THEN <<>>
                  ELSE updateManifest(lastOperationSignatures, applied').calls)
  /\ cache' = ApplyCalls(cache, cacheLog')
C12_TimestampOnlyOnSuccess == [][C12_Step]_vars

\* C12 witness: a check succeeded at 30 s, a later one failed at 60 s and
\* has rejected to its caller, and LastSuccessTimestamp still reads 30 s.
C12_Witness ==
  /\ observed.role = "initiator"
  /\ observed.check = 2
  /\ observed.res.state = "rejected"
  /\ lastSuccessfulCheck = DEFAULT_POLL_SECONDS
  /\ now = 2 * DEFAULT_POLL_SECONDS

\* A step in which checkForUpdate() is called.
CheckCalled == \E c \in Slots : calls[c].pc = "free" /\ calls'[c].pc # "free"

\* C13: a checkForUpdate() call prints the staleness warning exactly when
\* LastSuccessTimestamp is undefined or lies more than 60 seconds back.
C13_WarnsWhenStale ==
  [][CheckCalled =>
       warned' = (\/ lastSuccessfulCheck = Never
                  \/ now - lastSuccessfulCheck > SYNC_WARN_TIME_SECONDS)]_vars

\* C14: a 2xx response whose content type is not application/json, a missing
\* header included, makes tryUpdate() throw the content-type error when the
\* response arrives, so that no body is parsed and no manifest applied.
C14_StrictContentType ==
  [][(ok(fetched') /\ fetched'.contentType # "application/json") =>
       \E c \in Slots :
         /\ calls[c].pc = "fetching"
         /\ calls'[c].pc = "tryDone"
         /\ calls'[c].res = Rejected(ErrContentType)]_vars

\* The options name a service identifier and a schema fingerprint, both
\* non-empty strings.
ValidOptions(opts) ==
  /\ opts.schemaHash.kind = "string" /\ opts.schemaHash.value # ""
  /\ opts.engine.kind = "object"
  /\ opts.engine.serviceID.kind = "string" /\ opts.engine.serviceID.value # ""

\* C15: an agent exists only for options with a non-empty service identifier
\* and a non-empty schema fingerprint, and only such an agent makes requests.
C15_InvalidOptionsNeverConstructed ==
  (agent = "constructed" \/ request.made) => ValidOptions(options)

\* C16: the request carries an If-None-Match header iff a token is stored and
\* the header is the stored token; the token stored after a manifest was
\* applied is the etag header of the response as it was received, and no
\* other step changes the token.
C16_Step ==
  /\ request'.made =>
       request'.ifNoneMatch =
         (IF lastSuccessfulETag = Undefined THEN Null ELSE lastSuccessfulETag)
  /\ \A c \in Slots :
       (calls[c].pc = "awaitUpdate" /\ calls'[c].pc = "tryDone"
          /\ calls[c].res.state = "resolved" /\ calls[c].hdr # NoHeader) =>
         lastSuccessfulETag' = Join(calls[c].hdr)
  /\ (\A c \in Slots : ~(calls[c].pc = "awaitUpdate" /\ calls'[c].pc = "tryDone")) =>
       lastSuccessfulETag' = lastSuccessfulETag
C16_TokenRoundTrips == [][C16_Step]_vars

\* The positions of the cache calls of one kind on one key.
CallsOn(log, kind, key) == {i \in 1..Len(log) : log[i].op = kind /\ log[i].key = key}

\* C17: a signature both in KnownSignatures and in the manifest handed to
\* updateManifest() gets no cache call, neither set nor delete, whatever
\* document the manifest gives it, and its cache entry stays as it was.
C17_Step ==
  applied' # NoManifest =>
    \A sig \in KnownSignatures \cap signatures(applied') :
      /\ \A i \in 1..Len(cacheLog') : cacheLog'[i].key # getCacheKey(sig)
      /\ cache'[getCacheKey(sig)] = cache[getCacheKey(sig)]
C17_KnownSignatureUntouched == [][C17_Step]_vars

\* C17 witness: "a" was stored with docA, then a manifest giving "a" docB was
\* applied: no cache call was made and "apq:a" still holds docA.
C17_Witness ==
  /\ applied = Manifest(1, <<Op("a", "docB")>>)
  /\ cacheLog = <<>>
  /\ thrown = NoError
  /\ lastOperationSignatures = <<"a">>
  /\ cache["apq:a"] = "docA"

\* The document of the last entry of m that carries sig.
LastDocument(m, sig) ==
  LET at == {i \in 1..Len(m.operations) : m.operations[i].signature = sig}
  IN m.operations[CHOOSE i \in at : \A j \in at : j <= i].document

\* C18: for a valid manifest updateManifest() issues one cache-set per
\* distinct incoming signature not in KnownSignatures, with the document of
\* the last entry carrying it, one cache-delete per signature of
\* KnownSignatures absent from the manifest, and no other cache call.
C18_Step ==
  applied' \in ValidManifests =>
    LET added == signatures(applied') \ KnownSignatures
        removed == KnownSignatures \ signatures(applied')
    IN /\ \A sig \in added :
            \E i \in 1..Len(cacheLog') :
              /\ CallsOn(cacheLog', "set", getCacheKey(sig)) = {i}
              /\ cacheLog'[i].value = LastDocument(applied', sig)
       /\ \A sig \in removed :
            Cardinality(CallsOn(cacheLog', "delete", getCacheKey(sig))) = 1
       /\ Len(cacheLog') = Cardinality(added) + Cardinality(removed)
C18_MinimalDiff == [][C18_Step]_vars

\* C19: an updateManifest() call that does not reject leaves KnownSignatures
\* equal to the signatures of its manifest, whatever cache calls it issued and
\* whichever of them failed; one that rejects leaves KnownSignatures alone;
\* and the deletes of a call are those of KnownSignatures, the signatures of
\* the most recent manifest applied, minus the incoming ones.
C19_Step ==
  applied' # NoManifest =>
    IF thrown' = NoError
    THEN /\ KnownSignatures' = signatures(applied')
         /\ {cacheLog'[i].key : i \in {j \in 1..Len(cacheLog') : cacheLog'[j].op = "delete"}}
              = KeysOf(KnownSignatures \ signatures(applied'))
    ELSE KnownSignatures' = KnownSignatures
C19_SignaturesAlwaysReplaced == [][C19_Step]_vars

\* C19 witness: the cache-set of the manifest {a: docA} failed, the cache holds
\* nothing under "apq:a", and KnownSignatures is {a} all the same.
C19_Witness ==
  /\ applied = Manifest(1, <<Op("a", "docA")>>)
  /\ cacheLog = <<CacheSet("apq:a", "docA")>>
  /\ thrown = NoError
  /\ cache["apq:a"] = Absent
  /\ lastOperationSignatures = <<"a">>

\* The tryUpdate() runs of the boolean-flag Agent that have not settled.
FlagPending == {i \in Slots : flagAgent.runs[i].pc # "free"}

\* C20: in the boolean-flag Agent requestInFlight is true for as long as a
\* tryUpdate() has not settled, at most one tryUpdate() is pending at a time,
\* and lastSuccessfulCheck is set only once a tryUpdate() has succeeded.
C20_OverlapSuppressed ==
  /\ FlagPending # {} => flagAgent.requestInFlight
  /\ Cardinality(FlagPending) <= 1
  /\ flagAgent.lastSuccessfulCheck # Never => flagAgent.returned

\* A step in which the caller that began a check is told that it failed.
FailureObserved(c) ==
  /\ calls[c].role = "initiator"
  /\ calls[c].pc = "handled"
  /\ calls[c].res.state = "rejected"
  /\ calls'[c].pc = "free"

\* C21: when a check ends in an error, whatever step threw it,
\* KnownSignatures, the cache and ETagToken are as the check found them when
\* it began.
C21_Step ==
  \A c \in Slots :
    FailureObserved(c) =>
      /\ checkpoint.taken
      /\ lastOperationSignatures = checkpoint.lastOperationSignatures
      /\ cache = checkpoint.cache
      /\ lastSuccessfulETag = checkpoint.lastSuccessfulETag
C21_FailedCheckChangesNothing == [][C21_Step]_vars

\* The validator token a response delivers: none without an etag header, else
\* the header as the agent reads it, or as it stands where it cannot be read.
Delivered(hdr) ==
  IF hdr = NoHeader THEN Undefined
  ELSE IF JSONParse(hdr).ok THEN JSONParse(hdr).value
  ELSE Join(hdr)

\* C22: a check that has applied the manifest of its 200 response leaves in
\* ETagToken the token that response delivered, or none, never the token of
\* an earlier manifest; and no other step of a check changes ETagToken or
\* KnownSignatures.
C22_Step ==
  \A c \in Slots :
    /\ (calls[c].pc = "awaitUpdate" /\ calls[c].res.state = "resolved"
          /\ calls'[c].pc = "tryDone") =>
         lastSuccessfulETag' \in {Delivered(calls[c].hdr), Undefined}
    /\ (calls[c].pc \in Running \cup {"handled"} /\ calls[c].pc # "json"
          /\ ~(calls[c].pc = "awaitUpdate" /\ calls[c].res.state = "resolved")) =>
         /\ lastSuccessfulETag' = lastSuccessfulETag
         /\ lastOperationSignatures' = lastOperationSignatures
C22_TokenMatchesManifest == [][C22_Step]_vars
====
